---- MODULE Spec2Model ----
(***************************************************************************)
(* ALISA audit pipeline: integrity check, extraction with textual          *)
(* fallback, SoD rule engine with per-user history, baseline and finding   *)
(* persistence, evidence artifacts.                                        *)
(*                                                                         *)
(* Text is modelled at word level: a log line is a sequence of words that  *)
(* the program sees joined by single spaces.  A Python dict is a record    *)
(* [kind |-> "dict", items |-> function from keys to values]; JSON null is *)
(* [kind |-> "null", items |-> <<>>].  Timestamps are left out.            *)
(***************************************************************************)
EXTENDS Integers, Sequences, FiniteSets, TLC

VARIABLES
  rules,        \* RuleEngine.rules: the loaded policy
  user_state,   \* RuleEngine.user_state: user -> set of actions
  baseline,     \* rows of table IntegrityBaseline, in LogID order
  audit,        \* rows of table AuditItems, in AuditID order
  artifacts,    \* evidence artifacts stored by save_artifact, in order
  last,         \* the most recent call: arguments, result, collaborator calls
  seen,         \* history: <<user, action>> of every complete event analyzed
  calls,        \* number of calls made
  callers,      \* overlapping analyze_log calls: caller -> position and locals
  heap,         \* the set objects created by "set()", in creation order
  bind          \* user -> index in heap of the set user_state[user] refers to

vars == <<rules, user_state, baseline, audit, artifacts, last, seen, calls,
          callers, heap, bind>>

\* state used only by overlapping calls
concVars == <<callers, heap, bind>>

(***************************************************************************)
(* Bounds                                                                  *)
(***************************************************************************)
\* number of run_pipeline calls in one run of Spec
MaxCalls == 3
\* number of direct analyze_log calls in one run of SpecEngine
MaxAnalyze == 3
\* number of run_pipeline calls in one run of SpecStore
MaxStoreCalls == 2
\* the latest write of a call that can be made to fail in SpecStore
MaxFailPoint == 2

(***************************************************************************)
(* Values                                                                  *)
(***************************************************************************)
\* Python None as returned by dict.get(key) for a missing key
NoneVal == "<None>"

Users == {"u_finance_01", "u_audit_01"}

Actions == {"Create_Invoice", "Approve_Payment", "View_Report"}

EmptyFcn == [k \in {} |-> NoneVal]

Dict(f) == [kind |-> "dict", items |-> f]

EmptyDict == Dict(EmptyFcn)

NullJson == [kind |-> "null", items |-> EmptyFcn]

\* slip: "is None" test in place of truthiness, so "" counts as present
TruthyStrNotNone(v) == v # NoneVal

\* Python truthiness of a str-or-None value
TruthyStr(v) == v # NoneVal /\ v # ""

\* Python truthiness of a parsed JSON value (dict or null)
TruthyJson(d) == d.kind = "dict" /\ DOMAIN d.items # {}

\* dict.get(key, default)
Get(d, key, default) == IF key \in DOMAIN d.items THEN d.items[key] ELSE default

(***************************************************************************)
(* Policy documents (config.yaml "rules" mapping after load)               *)
(***************************************************************************)
Rule(id, pairs) == [id |-> id, conflict_actions |-> pairs]

\* the spec's example policy
PolicyExample ==
  [n \in {"nist_ac2_sod"} |->
     Rule("AC-5", << <<"Create_Invoice", "Approve_Payment">> >>)]

\* same pair written in the other order, under another control id
PolicyOtherId ==
  [n \in {"nist_ac2_sod"} |->
     Rule("AC-6", << <<"Approve_Payment", "Create_Invoice">> >>)]

\* two conflict pairs sharing Create_Invoice
PolicyTwoPairs ==
  [n \in {"nist_ac2_sod"} |->
     Rule("AC-5", << <<"Create_Invoice", "Approve_Payment">>,
                     <<"View_Report", "Create_Invoice">> >>)]

\* _load_rules after a failed load
PolicyEmpty == [n \in {} |-> Rule("", <<>>)]

Policies == {PolicyExample, PolicyOtherId, PolicyTwoPairs, PolicyEmpty}

\* key standing for a "rules" value that is a YAML list, not a mapping
NotMapping == "<list>"

\* what _load_rules finds at CONFIG_PATH: a file that cannot be opened, text
\* that is not YAML, an empty document (safe_load gives None), a mapping
\* without the key "rules", or a mapping with it
FailedSources ==
  {[kind |-> k, rules |-> PolicyEmpty] :
     k \in {"unreadable", "unparsable", "empty_document"}}

PolicySources ==
  FailedSources
    \cup {[kind |-> "no_rules_key", rules |-> PolicyEmpty]}
    \cup {[kind |-> "ok", rules |-> p] : p \in Policies}

\* RuleEngine._load_rules: any exception in the try block gives {}
_load_rules(source) ==
  IF source.kind \in {"unreadable", "unparsable", "empty_document"}
    THEN PolicyEmpty
    ELSE IF source.kind = "no_rules_key" THEN PolicyEmpty ELSE source.rules

(***************************************************************************)
(* RuleEngine.analyze_log                                                  *)
(***************************************************************************)
\* the f-string of one violation, kept as its four placeholders
ViolationMsg(id, user, action_a, action_b) ==
  [control |-> id, user |-> user, action_a |-> action_a, action_b |-> action_b]

\* slip: the user's set replaced by the new action instead of extended
RecordActionOverwrite(us, user, action) ==
  [u \in DOMAIN us \cup {user} |-> IF u = user THEN {action} ELSE us[u]]

\* slip: one set shared by all users (the action lands in every user's set)
RecordActionShared(us, user, action) ==
  [u \in DOMAIN us \cup {user} |->
     (IF u \in DOMAIN us THEN us[u] ELSE {}) \cup {action}]

\* slip: symmetric difference (^=) in place of add, a repeated action removed
RecordActionToggle(us, user, action) ==
  [u \in DOMAIN us \cup {user} |->
     IF u = user
       THEN IF u \in DOMAIN us /\ action \in us[u]
              THEN us[u] \ {action}
              ELSE (IF u \in DOMAIN us THEN us[u] ELSE {}) \cup {action}
       ELSE us[u]]

\* self.user_state after "if user not in ...: ... = set()" and ".add(action)"
RecordAction(us, user, action) ==
  [u \in DOMAIN us \cup {user} |->
     IF u = user
       THEN (IF u \in DOMAIN us THEN us[u] ELSE {}) \cup {action}
       ELSE us[u]]

\* slip: "has_a or has_b" in place of "has_a and has_b"
RECURSIVE CheckPairsEither(_, _, _, _, _, _)
CheckPairsEither(sod_rule, conflict_pairs, i, acts, user, acc) ==
  IF i > Len(conflict_pairs)
    THEN [violations |-> acc, raised |-> FALSE]
    ELSE LET action_a == conflict_pairs[i][1]
             action_b == conflict_pairs[i][2]
         IN IF action_a \in acts \/ action_b \in acts
              THEN CheckPairsEither(sod_rule, conflict_pairs, i + 1, acts, user,
                     Append(acc, ViolationMsg(sod_rule.id, user, action_a, action_b)))
              ELSE CheckPairsEither(sod_rule, conflict_pairs, i + 1, acts, user, acc)

\* slip: each violation inserted at the head of the list (insert(0, ...))
RECURSIVE CheckPairsReversed(_, _, _, _, _, _)
CheckPairsReversed(sod_rule, conflict_pairs, i, acts, user, acc) ==
  IF i > Len(conflict_pairs)
    THEN [violations |-> acc, raised |-> FALSE]
    ELSE LET action_a == conflict_pairs[i][1]
             action_b == conflict_pairs[i][2]
         IN IF action_a \in acts /\ action_b \in acts
              THEN CheckPairsReversed(sod_rule, conflict_pairs, i + 1, acts, user,
                     <<ViolationMsg(sod_rule.id, user, action_a, action_b)>> \o acc)
              ELSE CheckPairsReversed(sod_rule, conflict_pairs, i + 1, acts, user, acc)

\* the loop over conflict_pairs from entry i on; acc is the list so far.
\* Result: [violations, raised]; unpacking a non-pair raises ValueError,
\* a firing rule without 'id' raises KeyError.
RECURSIVE CheckPairs(_, _, _, _, _, _)
CheckPairs(sod_rule, conflict_pairs, i, acts, user, acc) ==
  IF i > Len(conflict_pairs)
    THEN [violations |-> acc, raised |-> FALSE]
    ELSE LET conflict == conflict_pairs[i] IN
         IF Len(conflict) # 2
           THEN [violations |-> acc, raised |-> TRUE]
           ELSE LET action_a == conflict[1]
                    action_b == conflict[2]
                    has_a == action_a \in acts
                    has_b == action_b \in acts
                IN IF has_a /\ has_b
                     THEN IF sod_rule.id = NoneVal
                            THEN [violations |-> acc, raised |-> TRUE]
                            ELSE CheckPairs(sod_rule, conflict_pairs, i + 1, acts, user,
                                   Append(acc, ViolationMsg(sod_rule.id, user,
                                                            action_a, action_b)))
                     ELSE CheckPairs(sod_rule, conflict_pairs, i + 1, acts, user, acc)

\* variant: a violation is reported only by the call that first records the
\* action (already-reported suppression)
analyze_logNewOnly(rs, us, structured_log) ==
  LET user == Get(structured_log, "user", NoneVal)
      action == Get(structured_log, "action", NoneVal)
  IN IF structured_log.kind # "dict"
       THEN [user_state |-> us, violations |-> <<>>, raised |-> TRUE]
       ELSE IF ~TruthyStr(user) \/ ~TruthyStr(action)
         THEN [user_state |-> us, violations |-> <<>>, raised |-> FALSE]
         ELSE
           LET us2 == RecordAction(us, user, action)
               fresh == user \notin DOMAIN us \/ action \notin us[user]
               r == IF "nist_ac2_sod" \in DOMAIN rs /\ fresh
                      THEN CheckPairs(rs["nist_ac2_sod"],
                                      rs["nist_ac2_sod"].conflict_actions, 1,
                                      us2[user], user, <<>>)
                      ELSE [violations |-> <<>>, raised |-> FALSE]
           IN [user_state |-> us2, violations |-> r.violations, raised |-> r.raised]

\* analyze_log(structured_log) on engine state (rs, us).
\* Result: [user_state, violations, raised].
analyze_log(rs, us, structured_log) ==
  IF structured_log.kind # "dict"
    THEN [user_state |-> us, violations |-> <<>>, raised |-> TRUE]
    ELSE
      LET user == Get(structured_log, "user", NoneVal)
          action == Get(structured_log, "action", NoneVal)
      IN IF ~TruthyStr(user) \/ ~TruthyStr(action)
           THEN [user_state |-> us, violations |-> <<>>, raised |-> FALSE]
           ELSE
             LET us2 == RecordAction(us, user, action)
                 has_rule == "nist_ac2_sod" \in DOMAIN rs
                 sod_rule == rs["nist_ac2_sod"]
                 \* "self.rules.get": AttributeError when rules is a list
                 r == IF NotMapping \in DOMAIN rs
                        THEN [violations |-> <<>>, raised |-> TRUE]
                      ELSE IF has_rule
                        THEN CheckPairs(sod_rule, sod_rule.conflict_actions, 1,
                                        us2[user], user, <<>>)
                        ELSE [violations |-> <<>>, raised |-> FALSE]
             IN [user_state |-> us2, violations |-> r.violations, raised |-> r.raised]

(***************************************************************************)
(* Log lines (utils/mock_generator.py) as word sequences                   *)
(***************************************************************************)
SodUser == "u_finance_01"

SodLog(action) ==
  <<"Jun14", "finance_app", "system[1]:", "User", SodUser, "executed", "action:",
    action, "ID=INV-2024-001">>

\* generate_sod_violation_sequence: log1, log2
LogCreate == SodLog("Create_Invoice")

LogApprove == SodLog("Approve_Payment")

\* generate_normal_log with msg "authentication failure"
LogNormal ==
  <<"Jun14", "combo", "sshd(pam_unix)[19939]:", "authentication", "failure;",
    "user=root">>

\* generate_tampered_log_pair: the same line after the replace
LogTampered ==
  <<"Jun14", "combo", "sshd(pam_unix)[19939]:", "accepted", "password;",
    "user=root">>

\* a line with the fallback marker but no "User " part
LogNoUser == <<"Jun14", "finance_app", "executed", "action:", "Approve_Payment">>

Lines == {LogCreate, LogApprove, LogTampered, LogNoUser}

(***************************************************************************)
(* core/hasher.py.  SHA-256 is modelled by a 16-bit polynomial hash of the *)
(* words, written as 4 hex digits: a deterministic, fixed-length function  *)
(* of the content only.                                                    *)
(***************************************************************************)
Vocabulary ==
  <<"Jun14", "finance_app", "system[1]:", "User", "u_finance_01", "u_audit_01",
    "executed", "action:", "Create_Invoice", "Approve_Payment", "View_Report",
    "ID=INV-2024-001", "combo", "sshd(pam_unix)[19939]:", "authentication",
    "failure;", "accepted", "password;", "user=root">>

WordCode(w) ==
  IF \E i \in 1..Len(Vocabulary) : Vocabulary[i] = w
    THEN CHOOSE i \in 1..Len(Vocabulary) : Vocabulary[i] = w
    ELSE 0

HashWidth == 65536

RECURSIVE HashFrom(_, _, _)
HashFrom(content, i, h) ==
  IF i > Len(content) THEN h
  ELSE HashFrom(content, i + 1, (h * 31 + WordCode(content[i]) + 1) % HashWidth)

HexDigits(n) == <<(n \div 4096) % 16, (n \div 256) % 16, (n \div 16) % 16, n % 16>>

\* slip: only the head of the content is digested (content[:n])
generate_sha256Truncated(content) ==
  HexDigits(HashFrom(IF Len(content) > 3 THEN SubSeq(content, 1, 3) ELSE content,
                     1, 7))

generate_sha256(content) == HexDigits(HashFrom(content, 1, 7))

\* slip: the comparison dropped, every baseline accepted
verify_integrity_always(content, baseline_hash) == TRUE

verify_integrity(content, baseline_hash) ==
  LET current_hash == generate_sha256(content) IN current_hash = baseline_hash

(***************************************************************************)
(* expected_hash argument of run_pipeline: None, "" or a digest            *)
(***************************************************************************)
NoHash == [supplied |-> FALSE, hex |-> <<>>]

EmptyHash == [supplied |-> TRUE, hex |-> <<>>]

HashOf(l) == [supplied |-> TRUE, hex |-> generate_sha256(l)]

\* None, "", the baseline of the original line, the digest of the changed line
ExpectedHashes == {NoHash, EmptyHash, HashOf(LogNormal), HashOf(LogTampered)}

\* "if expected_hash:"
TruthyHash(h) == h.supplied /\ h.hex # <<>>

(***************************************************************************)
(* Results of the extraction collaborator parse_log_with_phi3              *)
(***************************************************************************)
FullEvent == Dict([k \in {"user", "action"} |->
                     IF k = "user" THEN SodUser ELSE "View_Report"])

PartialEvent == Dict([k \in {"user"} |-> "u_audit_01"])

ExtractResults == {EmptyDict, FullEvent, PartialEvent, NullJson}

(***************************************************************************)
(* main.py 2b: textual fallback                                            *)
(***************************************************************************)
RECURSIVE JoinWords(_)
JoinWords(ws) ==
  IF Len(ws) = 0 THEN ""
  ELSE IF Len(ws) = 1 THEN ws[1]
  ELSE ws[1] \o " " \o JoinWords(Tail(ws))

\* '"executed action:" in raw_log'
HasMarker(raw_log) ==
  \E i \in 1..(Len(raw_log) - 1) : raw_log[i] = "executed" /\ raw_log[i + 1] = "action:"

\* positions where "User " matches: the word User followed by a space
UserAt(raw_log) == {i \in 1..(Len(raw_log) - 1) : raw_log[i] = "User"}

Min(S) == CHOOSE m \in S : \A n \in S : m <= n

\* the try block; [ok |-> FALSE] stands for IndexError
FallbackParse(raw_log) ==
  IF UserAt(raw_log) = {}
    THEN [ok |-> FALSE, data |-> EmptyDict]
    ELSE
      LET first == Min(UserAt(raw_log))
          later == {i \in UserAt(raw_log) : i > first}
          stop == IF later = {} THEN Len(raw_log) + 1 ELSE Min(later)
          seg == SubSeq(raw_log, first + 1, stop - 1)
          \* the segment text ends with a space when another "User " follows
          trailing == later # {}
          sepAt == {i \in 2..(Len(seg) - 1) :
                      /\ seg[i] = "executed" /\ seg[i + 1] = "action:"
                      /\ (i + 2 <= Len(seg) \/ trailing)}
      IN IF sepAt = {}
           THEN [ok |-> FALSE, data |-> EmptyDict]
           ELSE LET s == Min(sepAt)
                    user == JoinWords(SubSeq(seg, 1, s - 1))
                    action == IF s + 2 <= Len(seg) THEN seg[s + 2] ELSE ""
                IN [ok |-> TRUE,
                    data |-> Dict([k \in {"user", "action"} |->
                                     IF k = "user" THEN user ELSE action])]

\* slip: the fallback skipped for an empty extraction result ("not" dropped)
FallbackNonEmptyOnly(raw_log, structured_data) ==
  IF TruthyJson(structured_data) /\ "action" \notin DOMAIN structured_data.items
    THEN IF HasMarker(raw_log)
           THEN FallbackParse(raw_log).data
           ELSE structured_data
    ELSE structured_data

\* structured_data after lines 72-78
Fallback(raw_log, structured_data) ==
  IF ~TruthyJson(structured_data) \/ "action" \notin DOMAIN structured_data.items
    THEN IF HasMarker(raw_log)
           THEN FallbackParse(raw_log).data
           ELSE structured_data
    ELSE structured_data

(***************************************************************************)
(* modules/reporter.py and core/database.py                                *)
(***************************************************************************)
\* EvidenceID is a fresh uuid4: modelled by the artifact's position in the sink
\* slip: Status derived from integrity_status instead of violation_msg
generate_evidence_artifactByIntegrity(id, log_line, structured_data, integrity_status, violation_msg) ==
  [EvidenceID |-> id,
   NIST_Control |-> "AC-5 (Separation of Duties)",
   Status |-> IF ~integrity_status THEN "VIOLATION" ELSE "COMPLIANT",
   SourceLog |-> [Raw |-> log_line, IntegrityVerified |-> integrity_status],
   Details |-> structured_data,
   ViolationReason |-> violation_msg]

generate_evidence_artifact(id, log_line, structured_data, integrity_status, violation_msg) ==
  [EvidenceID |-> id,
   NIST_Control |-> "AC-5 (Separation of Duties)",
   Status |-> IF violation_msg # <<>> THEN "VIOLATION" ELSE "COMPLIANT",
   SourceLog |-> [Raw |-> log_line, IntegrityVerified |-> integrity_status],
   Details |-> structured_data,
   ViolationReason |-> violation_msg]

\* the tamper artifact's arguments
TamperDetails == Dict([k \in {"Event"} |-> "Tampering Detected"])

TamperMsg == <<"Hash Mismatch - Potential Log Tampering">>

\* row appended by save_log_baseline; LogID is AUTOINCREMENT
BaselineRow(log_id, raw_log, log_hash) ==
  [LogID |-> log_id, LogLine |-> raw_log, HashSHA256 |-> log_hash]

\* slip: the row written without the id returned by save_log_baseline
AuditRowNoLogId(audit_id, log_id, user_id, action, verdict, nist_control, evidence_json) ==
  [AuditID |-> audit_id, LogID |-> 0, UserID |-> user_id, Action |-> action,
   Verdict |-> verdict, NIST_Control |-> nist_control,
   EvidenceArtifact |-> evidence_json]

\* row appended by save_audit_item; evidence_json is <<>> for {} and
\* <<artifact>> for an embedded artifact
AuditRow(audit_id, log_id, user_id, action, verdict, nist_control, evidence_json) ==
  [AuditID |-> audit_id, LogID |-> log_id, UserID |-> user_id, Action |-> action,
   Verdict |-> verdict, NIST_Control |-> nist_control,
   EvidenceArtifact |-> evidence_json]

(***************************************************************************)
(* Record of the most recent call                                          *)
(***************************************************************************)
NoCall ==
  [op |-> "none", ret |-> "none", raw_log |-> <<>>,
   expected_hash |-> NoHash,
   other_log |-> <<>>,
   prev_op |-> "none", prev_data |-> EmptyDict, prev_violations |-> <<>>,
   extracted |-> EmptyDict, structured_data |-> EmptyDict, db_fail |-> 0, violations |-> <<>>, stages |-> <<>>,
   pre_user_state |-> [u \in {} |-> {}],
   pre_baseline |-> 0, pre_audit |-> 0, pre_artifacts |-> 0]

(***************************************************************************)
(* Engine-level specification: direct analyze_log calls on one engine     *)
(***************************************************************************)
\* event records handed to analyze_log: complete, partial and empty-valued
EventUsers == Users \cup {"", NoneVal}

EventActions == Actions \cup {"", NoneVal}

Event(u, a) ==
  Dict([k \in {x \in {"user", "action"} :
                 (x = "user" /\ u # NoneVal) \/ (x = "action" /\ a # NoneVal)} |->
          IF k = "user" THEN u ELSE a])

\* an event with both a user and an action (present and non-empty)
IsComplete(event) ==
  /\ event.kind = "dict"
  /\ {"user", "action"} \subseteq DOMAIN event.items
  /\ event.items["user"] # "" /\ event.items["action"] # ""

\* the callers of overlapping analyze_log calls on the shared engine
Threads == {1, 2}

\* a caller outside analyze_log
Idle ==
  [pc |-> "idle", user |-> NoneVal, action |-> NoneVal, ref |-> 0,
   i |-> 0, has_a |-> FALSE, violations |-> <<>>]

Observed(event) ==
  IF IsComplete(event)
    THEN {<<event.items["user"], event.items["action"]>>}
    ELSE {}

Init ==
  /\ \E source \in PolicySources : rules = _load_rules(source)
  /\ user_state = [u \in {} |-> {}]
  /\ baseline = <<>>
  /\ audit = <<>>
  /\ artifacts = <<>>
  /\ last = NoCall
  /\ seen = {}
  /\ calls = 0
  /\ callers = [t \in Threads |-> Idle]
  /\ heap = <<>>
  /\ bind = [u \in {} |-> 0]

CallAnalyzeLog(structured_log) ==
  /\ calls < MaxAnalyze
  /\ LET r == analyze_log(rules, user_state, structured_log) IN
       /\ user_state' = r.user_state
       /\ seen' = seen \cup Observed(structured_log)
       /\ last' = [NoCall EXCEPT
                     !.op = "analyze_log",
                     !.ret = IF r.raised THEN "Raised" ELSE "List",
                     !.structured_data = structured_log,
                     !.violations = r.violations,
                     !.prev_op = last.op,
                     !.prev_data = last.structured_data,
                     !.prev_violations = last.violations,
                     !.pre_user_state = user_state]
  /\ calls' = calls + 1
  /\ UNCHANGED <<rules, baseline, audit, artifacts>>
  /\ UNCHANGED concVars

NextEngine == \E u \in EventUsers, a \in EventActions : CallAnalyzeLog(Event(u, a))

SpecEngine == Init /\ [][NextEngine]_vars

(***************************************************************************)
(* Engine built from policies with several named rules (SpecNamed)         *)
(***************************************************************************)
\* the example pair listed under another rule name
PolicyOtherName ==
  [n \in {"nist_ac5_payments"} |->
     Rule("AC-5", << <<"Create_Invoice", "Approve_Payment">> >>)]

\* two named rules, each with its own control id and pair
PolicyTwoRules ==
  [n \in {"nist_ac2_sod", "sox_404_reporting"} |->
     IF n = "nist_ac2_sod"
       THEN Rule("AC-5", << <<"Create_Invoice", "Approve_Payment">> >>)
       ELSE Rule("SOX-404", << <<"View_Report", "Approve_Payment">> >>)]

NamedPolicies == Policies \cup {PolicyOtherName, PolicyTwoRules}

InitNamed ==
  /\ \E p \in NamedPolicies : rules = _load_rules([kind |-> "ok", rules |-> p])
  /\ user_state = [u \in {} |-> {}]
  /\ baseline = <<>>
  /\ audit = <<>>
  /\ artifacts = <<>>
  /\ last = NoCall
  /\ seen = {}
  /\ calls = 0
  /\ callers = [t \in Threads |-> Idle]
  /\ heap = <<>>
  /\ bind = [u \in {} |-> 0]

SpecNamed == InitNamed /\ [][NextEngine]_vars

(***************************************************************************)
(* Engine built from policy files with malformed content (SpecMalformed).  *)
(* _load_rules returns whatever "rules" holds: nothing is validated.       *)
(***************************************************************************)
\* "rules: [nist_ac2_sod]"
PolicyRulesList == [n \in {NotMapping} |-> Rule(NoneVal, <<>>)]

\* a conflict entry with one action
PolicyShortEntry ==
  [n \in {"nist_ac2_sod"} |-> Rule("AC-5", << <<"Create_Invoice">> >>)]

\* a conflict entry with three actions
PolicyLongEntry ==
  [n \in {"nist_ac2_sod"} |->
     Rule("AC-5", << <<"Create_Invoice", "Approve_Payment", "View_Report">> >>)]

\* a rule without the key 'id'
PolicyNoId ==
  [n \in {"nist_ac2_sod"} |->
     Rule(NoneVal, << <<"Create_Invoice", "Approve_Payment">> >>)]

MalformedPolicies ==
  {PolicyExample, PolicyRulesList, PolicyShortEntry, PolicyLongEntry, PolicyNoId}

InitMalformed ==
  /\ \E p \in MalformedPolicies : rules = _load_rules([kind |-> "ok", rules |-> p])
  /\ user_state = [u \in {} |-> {}]
  /\ baseline = <<>>
  /\ audit = <<>>
  /\ artifacts = <<>>
  /\ last = NoCall
  /\ seen = {}
  /\ calls = 0
  /\ callers = [t \in Threads |-> Idle]
  /\ heap = <<>>
  /\ bind = [u \in {} |-> 0]

SpecMalformed == InitMalformed /\ [][NextEngine]_vars

(***************************************************************************)
(* core/hasher.py called directly on a corpus of texts (SpecHasher)        *)
(***************************************************************************)
\* the mock generator's lines, the empty text, and texts that differ from
\* another one by a dropped, added or exchanged word
Corpus ==
  {LogCreate, LogApprove, SodLog("View_Report"), LogNormal, LogTampered,
   LogNoUser, <<>>, <<"Jun14">>, SubSeq(LogNormal, 1, 5),
   LogNormal \o <<"user=root">>,
   <<"combo", "Jun14", "sshd(pam_unix)[19939]:", "authentication", "failure;",
     "user=root">>}

\* baselines handed to verify_integrity: the digest of a text of the corpus
\* (kept with that text), or the empty string
VerifyBaselines ==
  {[hex |-> generate_sha256(t), of |-> <<t>>] : t \in Corpus}
    \cup {[hex |-> <<>>, of |-> <<>>]}

CallVerify(content, b) ==
  /\ last' = [NoCall EXCEPT
                !.op = "verify_integrity",
                !.ret = IF verify_integrity(content, b.hex) THEN "True" ELSE "False",
                !.raw_log = content,
                !.expected_hash = [supplied |-> TRUE, hex |-> b.hex],
                !.other_log = b.of]
  /\ UNCHANGED <<rules, user_state, baseline, audit, artifacts, seen, calls>>
  /\ UNCHANGED concVars

NextHasher == \E content \in Corpus, b \in VerifyBaselines : CallVerify(content, b)

SpecHasher == Init /\ [][NextHasher]_vars

(***************************************************************************)
(* Overlapping analyze_log calls on the module-level engine (SpecConc).    *)
(* One action per read or write of the shared dict and its sets; nothing   *)
(* in the code holds a lock between them.                                  *)
(***************************************************************************)
ConcActions == {"Create_Invoice", "Approve_Payment"}

\* self.user_state as the dict and the set objects give it
DictView(h, b) == [u \in DOMAIN b |-> h[b[u]]]

\* the conflict pairs the loop of a call iterates
ConcPairs == IF "nist_ac2_sod" \in DOMAIN rules
               THEN rules["nist_ac2_sod"].conflict_actions
               ELSE <<>>

\* a caller enters analyze_log with a complete event (guard at 66 passed)
Enter(t, user, action) ==
  /\ callers[t].pc = "idle"
  /\ callers' = [callers EXCEPT ![t] = [Idle EXCEPT !.pc = "test",
                                                   !.user = user,
                                                   !.action = action]]
  /\ seen' = seen \cup {<<user, action>>}
  /\ UNCHANGED <<rules, user_state, baseline, audit, artifacts, last, calls,
                 heap, bind>>

\* "if user not in self.user_state"
TestMember(t) ==
  /\ callers[t].pc = "test"
  /\ callers' = [callers EXCEPT ![t].pc =
                   IF callers[t].user \in DOMAIN bind THEN "subscr" ELSE "store"]
  /\ UNCHANGED <<rules, user_state, baseline, audit, artifacts, last, seen,
                 calls, heap, bind>>

\* "self.user_state[user] = set()": a new empty set replaces the entry
StoreSet(t) ==
  /\ callers[t].pc = "store"
  /\ heap' = Append(heap, {})
  /\ bind' = [u \in DOMAIN bind \cup {callers[t].user} |->
                IF u = callers[t].user THEN Len(heap) + 1 ELSE bind[u]]
  /\ user_state' = DictView(heap', bind')
  /\ callers' = [callers EXCEPT ![t].pc = "subscr"]
  /\ UNCHANGED <<rules, baseline, audit, artifacts, last, seen, calls>>

\* "self.user_state[user]" of the add statement: the set object is fetched
Subscr(t) ==
  /\ callers[t].pc = "subscr"
  /\ callers' = [callers EXCEPT ![t].ref = bind[callers[t].user],
                                ![t].pc = "add"]
  /\ UNCHANGED <<rules, user_state, baseline, audit, artifacts, last, seen,
                 calls, heap, bind>>

\* ".add(action)" on the fetched set, then "sod_rule = ..." and "if sod_rule"
AddAction(t) ==
  /\ callers[t].pc = "add"
  /\ heap' = [heap EXCEPT ![callers[t].ref] = @ \cup {callers[t].action}]
  /\ user_state' = DictView(heap', bind)
  /\ callers' = [callers EXCEPT ![t].i = 1,
                                ![t].pc = IF Len(ConcPairs) >= 1 THEN "has_a"
                                                               ELSE "done"]
  /\ UNCHANGED <<rules, baseline, audit, artifacts, last, seen, calls, bind>>

\* "has_a = action_a in self.user_state[user]"
ReadHasA(t) ==
  /\ callers[t].pc = "has_a"
  /\ callers' = [callers EXCEPT
                   ![t].has_a = ConcPairs[callers[t].i][1]
                                  \in heap[bind[callers[t].user]],
                   ![t].pc = "has_b"]
  /\ UNCHANGED <<rules, user_state, baseline, audit, artifacts, last, seen,
                 calls, heap, bind>>

\* "has_b = ..." and the rest of the iteration; after the last entry the
\* call returns its list
ReadHasB(t) ==
  /\ callers[t].pc = "has_b"
  /\ LET c == callers[t]
         conflict == ConcPairs[c.i]
         has_b == conflict[2] \in heap[bind[c.user]]
         found == IF c.has_a /\ has_b
                    THEN <<ViolationMsg(rules["nist_ac2_sod"].id, c.user,
                                        conflict[1], conflict[2])>>
                    ELSE <<>>
     IN callers' = [callers EXCEPT
                      ![t].violations = @ \o found,
                      ![t].i = c.i + 1,
                      ![t].pc = IF c.i + 1 > Len(ConcPairs) THEN "done"
                                                            ELSE "has_a"]
  /\ UNCHANGED <<rules, user_state, baseline, audit, artifacts, last, seen,
                 calls, heap, bind>>

NextConc ==
  \E t \in Threads :
    \/ \E user \in Users, action \in ConcActions : Enter(t, user, action)
    \/ TestMember(t)
    \/ StoreSet(t)
    \/ Subscr(t)
    \/ AddAction(t)
    \/ ReadHasA(t)
    \/ ReadHasB(t)

SpecConc == Init /\ [][NextConc]_vars

(***************************************************************************)
(* main.py run_pipeline: one call, start to return                         *)
(***************************************************************************)
\* lines 51-66: the tamper abort
TamperAbort(raw_log, expected_hash) ==
  LET artifact == generate_evidence_artifact(Len(artifacts) + 1, raw_log,
                                              TamperDetails, FALSE, TamperMsg)
  IN /\ artifacts' = Append(artifacts, artifact)
     /\ last' = [NoCall EXCEPT
                   !.op = "run_pipeline", !.ret = "False",
                   !.raw_log = raw_log, !.expected_hash = expected_hash,
                   !.stages = <<"generate_sha256", "verify_integrity",
                                "generate_evidence_artifact", "save_artifact">>,
                   !.pre_user_state = user_state,
                   !.pre_baseline = Len(baseline), !.pre_audit = Len(audit),
                   !.pre_artifacts = Len(artifacts)]
     /\ UNCHANGED <<user_state, baseline, audit, seen>>

\* lines 90-117: the artifacts stored by the reporting stage
ReportArtifacts(raw_log, structured_data, integrity_status, violations) ==
  [i \in 1..Len(violations) |->
     generate_evidence_artifact(Len(artifacts) + i, raw_log, structured_data,
                                integrity_status, <<violations[i]>>)]

\* slip: one finding per log line, written for the first violation only
ReportRowsFirstOnly(log_id, structured_data, violations, arts) ==
  << AuditRow(Len(audit) + 1, log_id,
              Get(structured_data, "user", "unknown"),
              Get(structured_data, "action", "unknown"),
              IF Len(violations) > 0 THEN "Violation" ELSE "Clear", "AC-5",
              IF Len(violations) > 0 THEN <<arts[1]>> ELSE <<>>) >>

\* lines 99-117: the rows appended by the reporting stage
ReportRows(log_id, structured_data, violations, arts) ==
  IF Len(violations) > 0
    THEN [i \in 1..Len(violations) |->
            AuditRow(Len(audit) + i, log_id,
                     Get(structured_data, "user", "unknown"),
                     Get(structured_data, "action", "unknown"),
                     "Violation", "AC-5", <<arts[i]>>)]
    ELSE << AuditRow(Len(audit) + 1, log_id,
                     Get(structured_data, "user", "unknown"),
                     Get(structured_data, "action", "unknown"),
                     "Clear", "AC-5", <<>>) >>

RECURSIVE ReportStages(_)
ReportStages(k) ==
  IF k = 0 THEN <<>>
  ELSE <<"generate_evidence_artifact", "save_artifact", "save_audit_item">>
         \o ReportStages(k - 1)

\* slip: the sqlite3 error caught and dropped, the write counted as done
WriteFailsSwallowed(db_fail, n) == FALSE

\* the n-th write of the call to the SQLite store raises (db_fail = 0: none)
WriteFails(db_fail, n) == db_fail = n

\* lines 68-120: extraction, fallback, analysis, persistence, reporting.
\* An exception raised by a collaborator leaves run_pipeline at that point.
Process(raw_log, expected_hash, integrity_status, extracted, db_fail) ==
  LET structured_data == Fallback(raw_log, extracted)
      r == analyze_log(rules, user_state, structured_data)
      violations == r.violations
      current_hash == generate_sha256(raw_log)
      log_id == Len(baseline) + 1
      arts == ReportArtifacts(raw_log, structured_data, integrity_status, violations)
      rows == ReportRows(log_id, structured_data, violations, arts)
      \* the findings whose save_audit_item raises
      failing == {f \in 1..Len(rows) : WriteFails(db_fail, f + 1)}
      front == <<"generate_sha256">>
                 \o (IF TruthyHash(expected_hash) THEN <<"verify_integrity">> ELSE <<>>)
                 \o <<"parse_log_with_phi3", "analyze_log">>
      rec == [NoCall EXCEPT
                !.op = "run_pipeline",
                !.raw_log = raw_log, !.expected_hash = expected_hash,
                !.extracted = extracted,
                !.structured_data = structured_data,
                !.db_fail = db_fail,
                !.pre_user_state = user_state,
                !.pre_baseline = Len(baseline), !.pre_audit = Len(audit),
                !.pre_artifacts = Len(artifacts)]
  IN /\ user_state' = r.user_state
     /\ seen' = seen \cup Observed(structured_data)
     /\ IF r.raised
          THEN /\ last' = [rec EXCEPT !.ret = "Raised", !.stages = front]
               /\ UNCHANGED <<baseline, audit, artifacts>>
          ELSE IF WriteFails(db_fail, 1)
          THEN /\ last' = [rec EXCEPT !.ret = "Raised", !.violations = violations,
                                      !.stages = front \o <<"save_log_baseline">>]
               /\ UNCHANGED <<baseline, audit, artifacts>>
          ELSE IF failing # {}
          THEN LET f == Min(failing) IN
               /\ baseline' = Append(baseline, BaselineRow(log_id, raw_log, current_hash))
               /\ artifacts' = artifacts \o SubSeq(arts, 1, Min({f, Len(arts)}))
               /\ audit' = audit \o SubSeq(rows, 1, f - 1)
               /\ last' = [rec EXCEPT
                             !.ret = "Raised", !.violations = violations,
                             !.stages = front \o <<"save_log_baseline">>
                                          \o (IF Len(violations) > 0
                                                THEN ReportStages(f)
                                                ELSE <<"save_audit_item">>)]
          ELSE /\ baseline' = Append(baseline, BaselineRow(log_id, raw_log, current_hash))
               /\ artifacts' = artifacts \o arts
               /\ audit' = audit \o rows
               /\ last' = [rec EXCEPT
                             !.ret = "True", !.violations = violations,
                             !.stages = front \o <<"save_log_baseline">>
                                          \o (IF Len(violations) > 0
                                                THEN ReportStages(Len(violations))
                                                ELSE <<"save_audit_item">>)]

\* slip: integrity_status starts as False and stays so without a baseline
PipelineCallUnverified(raw_log, expected_hash, extracted, db_fail) ==
  /\ calls' = calls + 1
  /\ UNCHANGED rules
  /\ UNCHANGED concVars
  /\ LET integrity_status ==
           IF TruthyHash(expected_hash)
             THEN verify_integrity(raw_log, expected_hash.hex)
             ELSE FALSE
     IN IF TruthyHash(expected_hash) /\ ~integrity_status
          THEN TamperAbort(raw_log, expected_hash)
          ELSE Process(raw_log, expected_hash, integrity_status, extracted, db_fail)

\* one run_pipeline call, start to return or raise
PipelineCall(raw_log, expected_hash, extracted, db_fail) ==
  /\ calls' = calls + 1
  /\ UNCHANGED rules
  /\ UNCHANGED concVars
  /\ LET integrity_status ==
           IF TruthyHash(expected_hash)
             THEN verify_integrity(raw_log, expected_hash.hex)
             ELSE TRUE
     IN IF TruthyHash(expected_hash) /\ ~integrity_status
          THEN TamperAbort(raw_log, expected_hash)
          ELSE Process(raw_log, expected_hash, integrity_status, extracted, db_fail)

\* a call while the store accepts every write
run_pipeline(raw_log, expected_hash, extracted) ==
  /\ calls < MaxCalls
  /\ PipelineCall(raw_log, expected_hash, extracted, 0)

Next ==
  \E raw_log \in Lines, expected_hash \in ExpectedHashes, extracted \in ExtractResults :
    run_pipeline(raw_log, expected_hash, extracted)

Spec == Init /\ [][Next]_vars

(***************************************************************************)
(* Pipeline with a store whose writes can fail (SpecStore)                 *)
(***************************************************************************)
\* a call during which the db_fail-th write to the store raises
run_pipeline_store(raw_log, expected_hash, extracted, db_fail) ==
  /\ calls < MaxStoreCalls
  /\ PipelineCall(raw_log, expected_hash, extracted, db_fail)

NextStore ==
  \E raw_log \in Lines, expected_hash \in ExpectedHashes, extracted \in ExtractResults,
     db_fail \in 0..MaxFailPoint :
    run_pipeline_store(raw_log, expected_hash, extracted, db_fail)

SpecStore == Init /\ [][NextStore]_vars

(***************************************************************************)
(* Properties                                                              *)
(***************************************************************************)
\* the call just made was run_pipeline with a non-empty digest that differs
\* from the digest of its raw_log
LastTampered ==
  /\ last.op = "run_pipeline"
  /\ last.expected_hash.supplied
  /\ last.expected_hash.hex # <<>>
  /\ last.expected_hash.hex # generate_sha256(last.raw_log)

\* the state after a tamper abort, seen from the state before it
TamperOutcome ==
  /\ last'.ret = "False"
  /\ Len(artifacts') = Len(artifacts) + 1
  /\ SubSeq(artifacts', 1, Len(artifacts)) = artifacts
  /\ LET a == artifacts'[Len(artifacts')] IN
       /\ a.Status = "VIOLATION"
       /\ a.SourceLog.IntegrityVerified = FALSE
       /\ a.SourceLog.Raw = last'.raw_log
       /\ a.ViolationReason = <<"Hash Mismatch - Potential Log Tampering">>
  /\ \A i \in 1..Len(last'.stages) :
       last'.stages[i] \notin {"parse_log_with_phi3", "analyze_log",
                               "save_log_baseline", "save_audit_item"}
  /\ user_state' = user_state
  /\ baseline' = baseline
  /\ audit' = audit

\* C1: a run_pipeline call whose expected_hash is a non-empty digest different
\* from sha256(raw_log) returns False, stores exactly one artifact (Status
\* VIOLATION, IntegrityVerified false, the hash-mismatch reason), calls neither
\* extraction nor analyze_log (history unchanged) and writes no baseline row
\* and no AuditItems row.
C1_TamperShortCircuit == [][LastTampered' => TamperOutcome]_vars

\* C1 witness: a tamper abort on a line, after the engine already has history
C1_Witness ==
  /\ LastTampered
  /\ last.ret = "False"
  /\ DOMAIN user_state # {}
  /\ Len(artifacts) > 0

\* the call just made was run_pipeline with a supplied expected_hash (any
\* string, the empty one included) that is not the digest of raw_log
LastSuppliedMismatch ==
  /\ last.op = "run_pipeline"
  /\ last.expected_hash.supplied
  /\ last.expected_hash.hex # generate_sha256(last.raw_log)

\* C3: whenever an expected baseline is supplied (any string, "" included) and
\* differs from the digest of raw_log, the call returns False, stores a
\* VIOLATION artifact and does no extraction, rule evaluation or persistence.
C3_SuppliedMismatchAborts == [][LastSuppliedMismatch' => TamperOutcome]_vars

(***************************************************************************)
(* Properties of the rule engine (SpecEngine)                              *)
(***************************************************************************)
\* the conflict pairs the engine evaluates, as the loaded policy lists them
SodPairs == IF "nist_ac2_sod" \in DOMAIN rules
              THEN rules["nist_ac2_sod"].conflict_actions
              ELSE <<>>

\* the call just made was analyze_log with a complete event
LastAnalyzeComplete ==
  /\ last.op = "analyze_log"
  /\ {"user", "action"} \subseteq DOMAIN last.structured_data.items
  /\ last.structured_data.items["user"] # ""
  /\ last.structured_data.items["action"] # ""

LastUser == last.structured_data.items["user"]

LastAction == last.structured_data.items["action"]

\* the returned list holds a violation for the pair {a, b}, naming both
\* actions, the actor and the control id
ReturnsViolationFor(a, b) ==
  \E k \in 1..Len(last.violations) :
    /\ {last.violations[k].action_a, last.violations[k].action_b} = {a, b}
    /\ last.violations[k].user = LastUser
    /\ last.violations[k].control = rules["nist_ac2_sod"].id

\* C2: with a policy containing the pair (Create_Invoice, Approve_Payment) and
\* an actor without history, analyze_log(Create_Invoice) returns no violation
\* and the immediately following analyze_log(Approve_Payment) returns exactly
\* one violation naming both actions, the actor and the control id; in general
\* a call returns a violation for a pair exactly when the actor's set, after
\* recording the action, contains both members, in either order of observation.
C2_SodDetection ==
  LastAnalyzeComplete =>
    /\ last.ret = "List"
    /\ \A i \in 1..Len(SodPairs) :
         ReturnsViolationFor(SodPairs[i][1], SodPairs[i][2])
           <=> {SodPairs[i][1], SodPairs[i][2]} \subseteq user_state[LastUser]
    /\ Len(last.violations) =
         Cardinality({i \in 1..Len(SodPairs) :
                        {SodPairs[i][1], SodPairs[i][2]} \subseteq user_state[LastUser]})
    /\ (\E i \in 1..Len(SodPairs) :
          {SodPairs[i][1], SodPairs[i][2]} = {"Create_Invoice", "Approve_Payment"}) =>
         /\ (LastUser \notin DOMAIN last.pre_user_state /\ LastAction = "Create_Invoice")
              => last.violations = <<>>
         /\ \A first \in {"Create_Invoice", "Approve_Payment"} :
              (/\ LastUser \in DOMAIN last.pre_user_state
               /\ last.pre_user_state[LastUser] = {first}
               /\ {first, LastAction} = {"Create_Invoice", "Approve_Payment"})
              => /\ Len(last.violations) = 1
                 /\ ReturnsViolationFor("Create_Invoice", "Approve_Payment")

\* C2 witness: the second call of the scenario has just returned its violation
C2_Witness ==
  /\ LastAnalyzeComplete
  /\ LastUser \in DOMAIN last.pre_user_state
  /\ last.pre_user_state[LastUser] = {"Create_Invoice"}
  /\ LastAction = "Approve_Payment"
  /\ Len(last.violations) = 1

\* the call just made was analyze_log with an event lacking a user or an
\* action (key missing, or empty value)
LastAnalyzePartial ==
  /\ last.op = "analyze_log"
  /\ \/ "user" \notin DOMAIN last.structured_data.items
     \/ "action" \notin DOMAIN last.structured_data.items
     \/ \E k \in DOMAIN last.structured_data.items : last.structured_data.items[k] = ""

\* C4: an analyze_log call whose event has no actor or no action (key missing
\* or empty) returns an empty list and leaves the whole history unchanged.
C4_PartialEventSafety ==
  [][LastAnalyzePartial' =>
       /\ last'.ret = "List"
       /\ last'.violations = <<>>
       /\ user_state' = user_state]_vars

\* C4 witness: a partial event arrived at an engine that already has history
C4_Witness ==
  /\ LastAnalyzePartial
  /\ DOMAIN last.structured_data.items # {}
  /\ DOMAIN user_state # {}

C6_NoCrossActorLeakage ==
  [][LastAnalyzeComplete' =>
       /\ \A k \in 1..Len(last'.violations) :
            /\ last'.violations[k].user = LastUser'
            /\ <<LastUser', last'.violations[k].action_a>> \in seen'
            /\ <<LastUser', last'.violations[k].action_b>> \in seen'
       /\ \A u \in DOMAIN user_state : u # LastUser' =>
            u \in DOMAIN user_state' /\ user_state'[u] = user_state[u]
       /\ DOMAIN user_state' \ {LastUser'} = DOMAIN user_state \ {LastUser'}]_vars

\* C6 witness: the two members of a conflict pair are spread over two actors
\* and the call for the second actor returned nothing
C6_Witness ==
  /\ LastAnalyzeComplete
  /\ last.violations = <<>>
  /\ \E i \in 1..Len(SodPairs) : \E u \in DOMAIN user_state :
       /\ u # LastUser
       /\ SodPairs[i][1] \in user_state[u]
       /\ SodPairs[i][2] \in user_state[LastUser]
       /\ SodPairs[i][2] \notin user_state[u]
       /\ SodPairs[i][1] \notin user_state[LastUser]

(***************************************************************************)
(* Properties of the pipeline (Spec)                                       *)
(***************************************************************************)
\* the call just made was run_pipeline and it handed a complete event to
\* analyze_log
LastPipelineComplete ==
  /\ last.op = "run_pipeline"
  /\ \E k \in 1..Len(last.stages) : last.stages[k] = "analyze_log"
  /\ {"user", "action"} \subseteq DOMAIN last.structured_data.items
  /\ last.structured_data.items["user"] # ""
  /\ last.structured_data.items["action"] # ""

\* the AuditItems rows appended by the step
NewRows == {audit'[k] : k \in (Len(audit) + 1)..Len(audit')}

\* C7: once an actor's history holds both actions of a conflict pair, every
\* later analyze_log call for that actor with a complete event, whatever its
\* action, returns that pair's violation again, and the run_pipeline call
\* persists a finding with Verdict=Violation.
C7_ReTriggering ==
  [][LastPipelineComplete' =>
       \A i \in 1..Len(SodPairs) :
         (/\ LastUser' \in DOMAIN user_state
          /\ {SodPairs[i][1], SodPairs[i][2]} \subseteq user_state[LastUser'])
         => /\ last'.ret = "True"
            /\ \E k \in 1..Len(last'.violations) :
                 /\ last'.violations[k].action_a = SodPairs[i][1]
                 /\ last'.violations[k].action_b = SodPairs[i][2]
                 /\ last'.violations[k].user = LastUser'
            /\ \E row \in NewRows :
                 /\ row.Verdict = "Violation"
                 /\ row.UserID = LastUser'
                 /\ row.Action = LastAction'
                 /\ row.LogID = Len(baseline')]_vars

\* C7 witness: the third call for the actor, with an action outside the pair
\* already satisfied, reported the pair again
C7_Witness ==
  /\ LastPipelineComplete
  /\ last.ret = "True"
  /\ LastUser \in DOMAIN last.pre_user_state
  /\ \E i \in 1..Len(SodPairs) :
       /\ {SodPairs[i][1], SodPairs[i][2]} \subseteq last.pre_user_state[LastUser]
       /\ LastAction \notin {SodPairs[i][1], SodPairs[i][2]}
  /\ Len(audit) > 0
  /\ audit[Len(audit)].Verdict = "Violation"

\* the policy lists the pair (Create_Invoice, Approve_Payment)
HasInvoicePair ==
  \E i \in 1..Len(SodPairs) :
    {SodPairs[i][1], SodPairs[i][2]} = {"Create_Invoice", "Approve_Payment"}

\* the call just made was run_pipeline(line) without expected_hash, with the
\* extraction collaborator returning an empty result
LastPlainCall(line) ==
  /\ last.op = "run_pipeline"
  /\ last.raw_log = line
  /\ ~last.expected_hash.supplied
  /\ \E k \in 1..Len(last.stages) : last.stages[k] = "parse_log_with_phi3"
  /\ last.extracted = EmptyDict

\* C8: with the pair (Create_Invoice, Approve_Payment), a fresh engine and
\* empty extraction results, run_pipeline on the Create_Invoice line and then
\* on the Approve_Payment line both return True; the first persists exactly
\* one finding, Clear, for the user; the second persists a Violation finding
\* for the user and action Approve_Payment.
C8_EndToEndSod ==
  [][HasInvoicePair =>
       /\ (calls = 0 /\ LastPlainCall(LogCreate)') =>
            /\ last'.ret = "True"
            /\ Len(audit') = 1
            /\ audit'[1].Verdict = "Clear"
            /\ audit'[1].UserID = SodUser
       /\ (calls = 1 /\ LastPlainCall(LogCreate) /\ LastPlainCall(LogApprove)') =>
            /\ last'.ret = "True"
            /\ Len(audit) = 1
            /\ Len(audit') > 1
            /\ \A row \in NewRows :
                 /\ row.Verdict = "Violation"
                 /\ row.UserID = SodUser
                 /\ row.Action = "Approve_Payment"]_vars

\* C8 witness: the state after the second call of the scenario
C8_Witness ==
  /\ HasInvoicePair
  /\ calls = 2
  /\ LastPlainCall(LogApprove)
  /\ Len(baseline) = 2
  /\ baseline[1].LogLine = LogCreate
  /\ Len(audit) = 2
  /\ audit[1].Verdict = "Clear"
  /\ audit[2].Verdict = "Violation"

\* C9: the persisted finding of an SoD violation carries the control id
\* configured in the policy rule that fired.
C9_ControlIdPersisted ==
  \A k \in 1..Len(audit) :
    audit[k].Verdict = "Violation" =>
      audit[k].NIST_Control = rules["nist_ac2_sod"].id

\* C10 as stated: each processed (non-tampered) log line results in exactly
\* one AuditItems row, whatever number of violations was returned.
C10_ExactlyOneRow ==
  (last.op = "run_pipeline" /\ last.ret = "True") =>
    Len(audit) = last.pre_audit + 1

\* C10 amended: a line processed to completion results in exactly one row
\* when at most one violation was returned and in one row per violation
\* otherwise; all of them reference the line's baseline row.
C10_RowsPerLine ==
  [][(last'.op = "run_pipeline" /\ last'.ret = "True") =>
       /\ Len(audit') - Len(audit) =
            (IF Len(last'.violations) <= 1 THEN 1 ELSE Len(last'.violations))
       /\ SubSeq(audit', 1, Len(audit)) = audit
       /\ Len(baseline') = Len(baseline) + 1
       /\ \A row \in NewRows : row.LogID = baseline'[Len(baseline')].LogID]_vars

\* C10 witness: one line for which two violations were returned
C10_Witness ==
  /\ last.op = "run_pipeline"
  /\ last.ret = "True"
  /\ Len(last.violations) = 2
  /\ Len(audit) = last.pre_audit + 2

\* C11: every run_pipeline call that returns True has appended exactly one
\* IntegrityBaseline row (the raw log and its digest) and at least one
\* AuditItems row; every AuditItems row it wrote carries the LogID of that
\* baseline row, so every finding's LogID refers to an existing baseline row.
C11_BaselineForEveryLine ==
  [][/\ (last'.op = "run_pipeline" /\ last'.ret = "True") =>
          /\ Len(baseline') = Len(baseline) + 1
          /\ SubSeq(baseline', 1, Len(baseline)) = baseline
          /\ baseline'[Len(baseline')].LogLine = last'.raw_log
          /\ baseline'[Len(baseline')].HashSHA256 = generate_sha256(last'.raw_log)
          /\ Len(audit') >= Len(audit) + 1
          /\ \A row \in NewRows : row.LogID = baseline'[Len(baseline')].LogID
     /\ \A k \in 1..Len(audit') :
          \E j \in 1..Len(baseline') : baseline'[j].LogID = audit'[k].LogID
     /\ \A j, k \in 1..Len(baseline') :
          baseline'[j].LogID = baseline'[k].LogID => j = k]_vars

\* C11 witness: two lines processed, one without and one with a violation,
\* each with its own baseline row and findings pointing at it
C11_Witness ==
  /\ last.op = "run_pipeline"
  /\ last.ret = "True"
  /\ Len(baseline) = 2
  /\ Len(audit) >= 2
  /\ audit[1].LogID = 1
  /\ audit[1].Verdict = "Clear"
  /\ audit[Len(audit)].LogID = 2
  /\ audit[Len(audit)].Verdict = "Violation"

\* the call just made was a run_pipeline call that got past the integrity
\* stage (extraction was called)
LastNotTampered ==
  /\ last.op = "run_pipeline"
  /\ \E k \in 1..Len(last.stages) : last.stages[k] = "parse_log_with_phi3"

\* C12: for every outcome of the extraction collaborator (error, empty
\* result, partial record, JSON null) a non-tampered run_pipeline call reaches
\* persistence and returns True; when neither extraction nor the fallback
\* yields an actor and an action it persists one finding unknown/unknown/Clear.
C12_ExtractionNeverAborts ==
  LastNotTampered =>
    /\ last.ret = "True"
    /\ Len(baseline) = last.pre_baseline + 1
    /\ DOMAIN last.structured_data.items \cap {"user", "action"} = {} =>
         /\ Len(audit) = last.pre_audit + 1
         /\ audit[Len(audit)].UserID = "unknown"
         /\ audit[Len(audit)].Action = "unknown"
         /\ audit[Len(audit)].Verdict = "Clear"

\* C13: if the policy source cannot be opened or parsed the engine is built
\* with an empty rule set; then every analyze_log call returns an empty list
\* while still recording the action, and every non-tampered run_pipeline call
\* completes with a Clear finding.
C13_FailOpenLoad ==
  /\ \A source \in FailedSources : DOMAIN _load_rules(source) = {}
  /\ (DOMAIN rules = {} /\ LastNotTampered) =>
       /\ last.ret = "True"
       /\ last.violations = <<>>
       /\ Len(audit) = last.pre_audit + 1
       /\ audit[Len(audit)].Verdict = "Clear"
       /\ LastPipelineComplete => LastAction \in user_state[LastUser]

(***************************************************************************)
(* Properties of the pipeline over a failing store (SpecStore)             *)
(***************************************************************************)
\* number of calls of a collaborator made by the latest call
StageCount(name) == Cardinality({k \in 1..Len(last.stages) : last.stages[k] = name})

\* the latest call's save_log_baseline raised
BaselineAppendFailed ==
  /\ last.op = "run_pipeline"
  /\ last.db_fail = 1
  /\ StageCount("save_log_baseline") = 1

\* one of the latest call's save_audit_item calls raised
FindingAppendFailed ==
  /\ last.op = "run_pipeline"
  /\ last.db_fail >= 2
  /\ StageCount("save_audit_item") >= last.db_fail - 1

StoredArtifacts == SubSeq(artifacts, last.pre_artifacts + 1, Len(artifacts))

StoredRows == SubSeq(audit, last.pre_audit + 1, Len(audit))

\* C19: a non-tampered run_pipeline call for which analyze_log returned k
\* violations (a call that got through analysis and returned True) stores,
\* when k > 0, exactly k evidence artifacts, the i-th with Status=VIOLATION
\* and the i-th message as ViolationReason, and exactly k AuditItems rows with
\* Verdict=Violation, the i-th embedding the i-th artifact; when k = 0 it
\* stores no artifact and exactly one row, Verdict=Clear, with an empty
\* evidence payload.
C19_ReportingCounts ==
  (last.op = "run_pipeline" /\ last.ret = "True") =>
    LET k == Len(last.violations) IN
      IF k > 0
        THEN /\ Len(StoredArtifacts) = k
             /\ Len(StoredRows) = k
             /\ \A i \in 1..k :
                  /\ StoredArtifacts[i].Status = "VIOLATION"
                  /\ StoredArtifacts[i].ViolationReason = <<last.violations[i]>>
                  /\ StoredRows[i].Verdict = "Violation"
                  /\ StoredRows[i].EvidenceArtifact = <<StoredArtifacts[i]>>
        ELSE /\ Len(StoredArtifacts) = 0
             /\ Len(StoredRows) = 1
             /\ StoredRows[1].Verdict = "Clear"
             /\ StoredRows[1].EvidenceArtifact = <<>>

\* C19 witness: a call with two violations stored two different artifacts,
\* each embedded in its own row
C19_Witness ==
  /\ last.op = "run_pipeline"
  /\ last.ret = "True"
  /\ Len(last.violations) = 2
  /\ Len(StoredArtifacts) = 2
  /\ StoredArtifacts[1] # StoredArtifacts[2]
  /\ StoredRows[2].EvidenceArtifact = <<StoredArtifacts[2]>>

\* C23: every evidence artifact stored by the reporting stage has
\* SourceLog.IntegrityVerified = true, also when the call had no expected
\* baseline and nothing was verified; IntegrityVerified = false appears only
\* on the artifact of a tamper abort.
C23_IntegrityVerifiedFlag ==
  /\ (last.op = "run_pipeline" /\ last.ret = "True") =>
       \A i \in 1..Len(StoredArtifacts) :
         StoredArtifacts[i].SourceLog.IntegrityVerified = TRUE
  /\ \A k \in 1..Len(artifacts) :
       artifacts[k].SourceLog.IntegrityVerified = FALSE
         => /\ artifacts[k].ViolationReason
                 = <<"Hash Mismatch - Potential Log Tampering">>
            /\ DOMAIN artifacts[k].Details.items = {"Event"}

\* C23 witness: after a tamper abort, a call without expected baseline stored
\* a violation artifact marked as verified
C23_Witness ==
  /\ last.op = "run_pipeline"
  /\ last.ret = "True"
  /\ ~last.expected_hash.supplied
  /\ Len(StoredArtifacts) >= 1
  /\ StoredArtifacts[1].Status = "VIOLATION"
  /\ StoredArtifacts[1].SourceLog.IntegrityVerified = TRUE
  /\ \E k \in 1..Len(artifacts) : artifacts[k].SourceLog.IntegrityVerified = FALSE

\* the collaborator calls of the latest call from extraction on
StagesFromExtraction ==
  LET p == CHOOSE k \in 1..Len(last.stages) : last.stages[k] = "parse_log_with_phi3"
  IN SubSeq(last.stages, p, Len(last.stages))

\* C20: in every non-tampered run_pipeline call the stages happen once each
\* in the order extraction, analyze_log (where the history is updated),
\* baseline persistence, reporting; within reporting each violation's
\* artifact is built and stored before its finding row; no stage is entered
\* a second time.
C20_StageOrder ==
  LastNotTampered =>
    LET k == Len(last.violations)
        t == StagesFromExtraction
    IN /\ Len(t) = 3 + (IF k = 0 THEN 1 ELSE 3 * k)
       /\ t[1] = "parse_log_with_phi3"
       /\ t[2] = "analyze_log"
       /\ t[3] = "save_log_baseline"
       /\ k = 0 => t[4] = "save_audit_item"
       /\ \A j \in 1..k :
            /\ t[3 * j + 1] = "generate_evidence_artifact"
            /\ t[3 * j + 2] = "save_artifact"
            /\ t[3 * j + 3] = "save_audit_item"
       /\ Len(baseline) = last.pre_baseline + 1

\* the entries of the conflict-pair list whose two actions are both in the
\* actor's set, in list order
PairFires(pair) == {pair[1], pair[2]} \subseteq user_state[LastUser]

FiringPairs == SelectSeq(SodPairs, PairFires)

\* C16: the violations returned by one analyze_log call are, in order, one
\* per entry of the conflict-pair list whose two actions are both in the
\* actor's set: the k-th violation names the k-th such entry.
C16_ViolationOrder ==
  LastAnalyzeComplete =>
    /\ Len(last.violations) = Len(FiringPairs)
    /\ \A k \in 1..Len(FiringPairs) :
         /\ last.violations[k].action_a = FiringPairs[k][1]
         /\ last.violations[k].action_b = FiringPairs[k][2]

\* a call returning two violations: the actor holds all three actions of a
\* two-pair policy
C16_Witness ==
  /\ LastAnalyzeComplete
  /\ Len(SodPairs) = 2
  /\ Len(last.violations) = 2
  /\ last.violations[1].action_b = "Approve_Payment"
  /\ last.violations[2].action_a = "View_Report"

\* C22: calling analyze_log twice in a row with the same complete event
\* leaves the per-actor history after the second call equal to the history
\* after the first, and the second call returns the same violation list.
C22_IdempotentUpdate ==
  [][(/\ last.op = "analyze_log"
      /\ LastAnalyzeComplete'
      /\ calls' = calls + 1
      /\ last'.structured_data = last.structured_data)
     => /\ user_state' = user_state
        /\ last'.ret = "List"
        /\ last'.violations = last.violations]_vars

\* C22 witness: the same event twice in a row, both calls returning the
\* violation of the pair
C22_Witness ==
  /\ LastAnalyzeComplete
  /\ last.prev_op = "analyze_log"
  /\ last.prev_data = last.structured_data
  /\ Len(last.violations) = 1
  /\ last.prev_violations = last.violations
  /\ last.pre_user_state = user_state

(***************************************************************************)
(* Properties of the engine over policies with several rules (SpecNamed)   *)
(***************************************************************************)
\* C15: for any rule name and any pair (a, b) listed under that rule, an
\* analyze_log call after which the actor's set contains both a and b returns
\* a violation for that pair carrying that rule's control id.
C15_EveryNamedRule ==
  LastAnalyzeComplete =>
    \A name \in DOMAIN rules :
      \A i \in 1..Len(rules[name].conflict_actions) :
        LET pair == rules[name].conflict_actions[i] IN
          {pair[1], pair[2]} \subseteq user_state[LastUser] =>
            \E k \in 1..Len(last.violations) :
              /\ last.violations[k].action_a = pair[1]
              /\ last.violations[k].action_b = pair[2]
              /\ last.violations[k].control = rules[name].id

(***************************************************************************)
(* Properties of overlapping analyze_log calls (SpecConc)                  *)
(***************************************************************************)
\* every caller has returned from its analyze_log call
AllReturned == \A t \in Threads : callers[t].pc = "done"

\* C17: once all overlapping analyze_log calls have completed, the actor's
\* action set contains every action passed in those calls; none is lost to
\* the check-then-create-then-add sequence on the shared history.
C17_NoLostAction ==
  AllReturned =>
    \A t \in Threads :
      /\ callers[t].user \in DOMAIN user_state
      /\ callers[t].action \in user_state[callers[t].user]

(***************************************************************************)
(* Properties of the hasher (SpecHasher)                                   *)
(***************************************************************************)
\* C18: verify_integrity(content, baseline) returns true exactly when
\* generate_sha256(content) equals baseline; over the corpus that is exactly
\* when the baseline is the digest of the same text (verify(t, digest(t)) is
\* true, verify(t, digest(t')) is false for t # t'); the call leaves the
\* engine state and the store as they were.
C18_VerifyIffSameDigest ==
  [][last'.op = "verify_integrity" =>
       /\ (last'.ret = "True")
            <=> (generate_sha256(last'.raw_log) = last'.expected_hash.hex)
       /\ (last'.ret = "True") <=> (last'.other_log = <<last'.raw_log>>)
       /\ last'.ret \in {"True", "False"}
       /\ UNCHANGED <<rules, user_state, baseline, audit, artifacts>>]_vars

\* the changed line checked against the digest of the original line
C18_Witness ==
  /\ last.op = "verify_integrity"
  /\ last.raw_log = LogTampered
  /\ last.other_log = <<LogNormal>>
  /\ last.ret = "False"

(***************************************************************************)
(* Properties of the engine over malformed policy files (SpecMalformed)    *)
(***************************************************************************)
\* C21: for every event record and every policy document the loader accepted
\* without falling back to the empty rule set, analyze_log returns a list;
\* malformed policy content never surfaces as an exception of analyze_log.
C21_AnalyzeNeverRaises ==
  (last.op = "analyze_log" /\ DOMAIN rules # {}) => last.ret = "List"

====
